---- MODULE Spec2Model ----
(***************************************************************************)
(* Model of the API key checker: the per-provider validators               *)
(* (src/api_validators.py), the command-line aggregator (src/main.py) and  *)
(* the web aggregator (src/app.py).                                        *)
(*                                                                         *)
(* Representation of Python values                                         *)
(*   str    a sequence of tokens.  Keys and provider identifiers are       *)
(*          sequences of one-character tokens, so slicing, strip(),        *)
(*          lower() and regular-expression matching are computed on the    *)
(*          characters.  A literal of the source that is never inspected   *)
(*          character by character is one token (or a few).                *)
(*   None   the empty tuple None; an optional string is None or <<s>>.     *)
(*   dict   a record.                                                      *)
(***************************************************************************)
EXTENDS Integers, Sequences, FiniteSets, TLC

----------------------------------------------------------------------------
(* Characters *)

UpperSeq == << "A","B","C","D","E","F","G","H","I","J","K","L","M",
               "N","O","P","Q","R","S","T","U","V","W","X","Y","Z" >>
LowerSeq == << "a","b","c","d","e","f","g","h","i","j","k","l","m",
               "n","o","p","q","r","s","t","u","v","w","x","y","z" >>
Upper == { UpperSeq[i] : i \in 1..Len(UpperSeq) }
Lower == { LowerSeq[i] : i \in 1..Len(LowerSeq) }
Digit == { "0","1","2","3","4","5","6","7","8","9" }
Alnum == Upper \cup Lower \cup Digit
\* what str.strip() removes among the characters the model uses
Whitespace == { " ", "\t", "\n", "\r" }

Rep(c, n) == [ i \in 1..n |-> c ]

\* str.strip(): drop leading and trailing whitespace
strip(s) ==
    IF \A n \in 1..Len(s) : s[n] \in Whitespace THEN << >>
    ELSE LET first == CHOOSE n \in 1..Len(s) :
                        s[n] \notin Whitespace /\ \A m \in 1..(n - 1) : s[m] \in Whitespace
             last  == CHOOSE n \in 1..Len(s) :
                        s[n] \notin Whitespace /\ \A m \in (n + 1)..Len(s) : s[m] \in Whitespace
         IN  SubSeq(s, first, last)

\* str.lower(): every upper-case letter becomes its lower-case letter
lowerChar(c) ==
    IF c \in Upper
    THEN LowerSeq[CHOOSE i \in 1..Len(UpperSeq) : UpperSeq[i] = c]
    ELSE c
lower(s) == [ i \in 1..Len(s) |-> lowerChar(s[i]) ]

\* s[:n]
Take(s, n) == SubSeq(s, 1, IF Len(s) < n THEN Len(s) ELSE n)

StartsWith(s, p) == Len(p) <= Len(s) /\ SubSeq(s, 1, Len(p)) = p

\* Python's `needle in haystack` on strings
Contains(hay, needle) ==
    \E i \in 1..(Len(hay) - Len(needle) + 1) :
        SubSeq(hay, i, i + Len(needle) - 1) = needle

None == << >>
Some(s) == << s >>

----------------------------------------------------------------------------
(* Provider identifiers *)

openai      == << "o","p","e","n","a","i" >>
github      == << "g","i","t","h","u","b" >>
google      == << "g","o","o","g","l","e" >>
aws         == << "a","w","s" >>
huggingface == << "h","u","g","g","i","n","g","f","a","c","e" >>
claude      == << "c","l","a","u","d","e" >>
gemini      == << "g","e","m","i","n","i" >>
grok        == << "g","r","o","k" >>
cohere      == << "c","o","h","e","r","e" >>
perplexity  == << "p","e","r","p","l","e","x","i","t","y" >>
replicate   == << "r","e","p","l","i","c","a","t","e" >>
togetherai  == << "t","o","g","e","t","h","e","r","a","i" >>
anthropic   == << "a","n","t","h","r","o","p","i","c" >>

\* the validator classes of src/api_validators.py
ValidatorClasses ==
    { "OpenAIValidator", "GitHubValidator", "GoogleValidator", "AWSValidator",
      "HuggingFaceValidator", "ClaudeValidator", "GeminiValidator",
      "GrokValidator", "CohereValidator", "PerplexityValidator",
      "ReplicateValidator", "TogetherAIValidator", "AnthropicValidator" }

----------------------------------------------------------------------------
(* Format patterns.  A pattern is a set of alternatives                     *)
(*   ^ (prefix_1 | ... | prefix_k) [class]{min,max} $                       *)
(* with max = -1 for an open quantifier {min,}.                             *)

Alt(prefixes, class, min, max) ==
    [ prefixes |-> prefixes, class |-> class, min |-> min, max |-> max ]

WordDash  == Alnum \cup { "-", "_" }

FORMAT_PATTERN(cls) ==
    CASE cls = "OpenAIValidator" ->
           { Alt({ <<"s","k","-">> }, Alnum \cup {"-"}, 20, -1) }
      [] cls = "GitHubValidator" ->
           { Alt({ <<"g","h","p","_">>,
                   <<"g","i","t","h","u","b","_","p","a","t","_">> },
                 Alnum \cup {"_"}, 36, -1) }
      [] cls = "GoogleValidator" ->
           { Alt({ <<"A","I","z","a">> }, WordDash, 35, 35) }
      [] cls = "AWSValidator" ->
           { Alt({ <<"A","K","I","A">> }, Digit \cup Upper, 16, 16) }
      [] cls = "HuggingFaceValidator" ->
           { Alt({ <<"h","f","_">> }, Alnum \cup {"_"}, 34, -1) }
      [] cls = "ClaudeValidator" ->
           { Alt({ <<"s","k","-","a","n","t","-">> }, WordDash, 70, -1) }
      [] cls = "GeminiValidator" ->
           { Alt({ <<"A","I","z","a">> }, WordDash, 35, 35),
             Alt({ << >> }, WordDash, 40, -1) }
      [] cls = "GrokValidator" ->
           { Alt({ <<"x","a","i","-">> }, WordDash, 20, -1) }
      [] cls = "CohereValidator" ->
           { Alt({ << >> }, Lower \cup Digit \cup {"-"}, 36, 36) }
      [] cls = "PerplexityValidator" ->
           { Alt({ <<"p","p","l","x","-">> }, WordDash, 40, -1) }
      [] cls = "ReplicateValidator" ->
           { Alt({ << >> }, Lower \cup Digit, 40, 40) }
      [] cls = "TogetherAIValidator" ->
           { Alt({ << >> }, Lower \cup Digit, 40, 40) }
      [] cls = "AnthropicValidator" ->
           { Alt({ <<"s","k","-","a","n","t","-">> }, WordDash, 60, -1) }

\* [class]{min,max} consumes the whole of s
ClassRun(s, class, min, max) ==
    /\ Len(s) >= min
    /\ max = -1 \/ Len(s) <= max
    /\ \A i \in 1..Len(s) : s[i] \in class

\* Python's `$` (no MULTILINE flag): the end of the string, or the position
\* just before a newline that is the string's last character
DollarRun(s, class, min, max) ==
    \/ ClassRun(s, class, min, max)
    \/ /\ Len(s) >= 1
       /\ s[Len(s)] = "\n"
       /\ ClassRun(SubSeq(s, 1, Len(s) - 1), class, min, max)

\* bool(re.match(pattern, key))
re_match(pattern, key) ==
    \E a \in pattern : \E p \in a.prefixes :
        /\ StartsWith(key, p)
        /\ DollarRun(SubSeq(key, Len(p) + 1, Len(key)), a.class, a.min, a.max)

validate_format(cls, key) == re_match(FORMAT_PATTERN(cls), key)

\* what the table of the specification states: the whole string is the match
FullMatch(pattern, key) ==
    \E a \in pattern : \E p \in a.prefixes :
        /\ StartsWith(key, p)
        /\ ClassRun(SubSeq(key, Len(p) + 1, Len(key)), a.class, a.min, a.max)

----------------------------------------------------------------------------
(* The probe: what the network (or the cloud SDK) answers to one request    *)

HttpStatuses == { 200, 400, 401, 403, 404, 500 }

\* the body of an HTTP response, as response.json() sees it
\*   object                a JSON object without an "error_message" member
\*   object_error_message  a JSON object with an "error_message" member
\*   array                 a JSON array or string in which "error_message"
\*                         does not occur
\*   array_error_message   a JSON array or string in which it occurs
\*   null                  JSON null, a number or a boolean
\*   not_json              not valid JSON (an HTML error page, an empty body)
Bodies ==
    { "object", "object_error_message", "array", "array_error_message", "null", "not_json" }

\* the messages of the exceptions requests.get raises: the connection error
\* of the transport quotes the URL it failed to reach, the read timeout does not
RequestExceptions == { "ConnectionError", "ReadTimeout" }

\* the exceptions of boto3.client / get_caller_identity, by message
StsExceptions ==
    { << "An error occurred (", "InvalidClientTokenId", ") when calling the GetCallerIdentity operation" >>,
      << "An error occurred (", "SignatureDoesNotMatch", ") when calling the GetCallerIdentity operation" >>,
      << "NoCredentialsError", ": Unable to locate credentials" >>,
      << "Partial credentials found in explicit, missing: aws_secret_access_key" >>,
      << "No module named 'boto3'" >> }

Resp(kind, status, body, msg) ==
    [ kind |-> kind, status |-> status, body |-> body, msg |-> msg ]
NoResp == Resp("none", 0, "object", << >>)

\* GoogleValidator alone calls response.json(); the other validators are given
\* a JSON body and one that is not JSON, and read neither
BodiesRead(cls) ==
    IF cls = "GoogleValidator" THEN Bodies ELSE { "object", "not_json" }

HttpResponses(cls) ==
    { Resp("http", s, b, << >>) : s \in HttpStatuses, b \in BodiesRead(cls) }
    \cup { Resp("request_exception", 0, "object", << e >>) : e \in RequestExceptions }
StsResponses ==
    { Resp("sts_ok", 0, "object", << >>) }
    \cup { Resp("sts_exception", 0, "object", m) : m \in StsExceptions }

\* what a validator's probe can be answered
Responses(cls) == IF cls = "AWSValidator" THEN StsResponses ELSE HttpResponses(cls)

\* path and query string of the request a validator sends: GoogleValidator and
\* GeminiValidator pass the key as the query parameter `key`, the others in a header
RequestUrl(cls, key) ==
    CASE cls = "GoogleValidator" ->
           << "/maps/api/geocode/json?address=1600+Amphitheatre+Parkway%2C+Mountain+View%2C+CA&key=" >> \o key
      [] cls = "GeminiValidator" -> << "/v1beta/models?key=" >> \o key
      [] cls = "OpenAIValidator" -> << "/v1/models" >>
      [] cls = "GitHubValidator" -> << "/user" >>
      [] cls = "HuggingFaceValidator" -> << "/api/whoami" >>
      [] cls = "CohereValidator" -> << "/v1/check-api-key" >>
      [] cls = "PerplexityValidator" -> << "/models" >>
      [] cls = "ReplicateValidator" -> << "/v1/account" >>
      [] OTHER -> << "/v1/models" >>

\* str(e) of a requests.RequestException
ExceptionMessage(cls, key, resp) ==
    IF resp.msg = << "ConnectionError" >>
    THEN << "HTTPSConnectionPool: Max retries exceeded with url: " >>
         \o RequestUrl(cls, key) \o << " (Caused by NewConnectionError)" >>
    ELSE << "HTTPSConnectionPool: Read timed out. (read timeout=5)" >>

\* the value of the "error_message" member of a geocoding error body
GoogleErrorMessage == << "The provided API key is invalid." >>

\* str(e) of the JSONDecodeError of response.json()
JsonErrorMessage == << "Expecting value: line 1 column 1 (char 0)" >>

\* the value of a test_key call: a returned two-tuple, or an exception raised
Returned(is_active, error) ==
    [ raised |-> FALSE, is_active |-> is_active, error |-> error ]
Raised(exc) ==
    [ raised |-> TRUE, is_active |-> FALSE, error |-> Some(<< exc >>) ]

HttpCode(status) == << "HTTP ", ToString(status) >>

\* the message a validator gives for HTTP 401
UnauthorizedMessage(cls) ==
    CASE cls = "OpenAIValidator" -> << "Unauthorized", " - invalid key" >>
      [] cls \in { "GitHubValidator", "HuggingFaceValidator", "ReplicateValidator" } ->
           << "Unauthorized", " - invalid token" >>
      [] OTHER -> << "Unauthorized", " - invalid API key" >>

\* test_key of the validators that look at the status code alone
StatusTestKey(cls, key, resp) ==
    IF resp.kind = "request_exception"
    THEN { Returned(FALSE, Some(ExceptionMessage(cls, key, resp))) }
    ELSE IF resp.status = 200 THEN { Returned(TRUE, None) }
    ELSE IF resp.status = 401 THEN { Returned(FALSE, Some(UnauthorizedMessage(cls))) }
    ELSE { Returned(FALSE, Some(HttpCode(resp.status))) }

\* the body of a 200 answer is not looked at
GoogleTestKeyStatusOnly(cls, key, resp) ==
    IF resp.kind = "request_exception"
    THEN { Returned(FALSE, Some(ExceptionMessage(cls, key, resp))) }
    ELSE IF resp.body = "not_json"
    THEN { Raised("JSONDecodeError"), Returned(FALSE, Some(JsonErrorMessage)) }
    ELSE IF resp.status = 200 THEN { Returned(TRUE, None) }
    ELSE { Returned(FALSE, Some(HttpCode(resp.status))) }

\* GoogleValidator.test_key: response.json() runs before the status is read.
\* On a body that is not JSON it raises a JSONDecodeError, which is a
\* requests.RequestException in requests >= 2.27 (caught) and a plain
\* ValueError before (not caught): either can be the build.  On a body that
\* is JSON null, a number or a boolean, `"error_message" not in data` raises a
\* TypeError; on an array or a string the test works, and when it finds
\* "error_message" there, data.get raises an AttributeError.
GoogleTestKey(cls, key, resp) ==
    IF resp.kind = "request_exception"
    THEN { Returned(FALSE, Some(ExceptionMessage(cls, key, resp))) }
    ELSE IF resp.body = "not_json"
    THEN { Raised("JSONDecodeError"), Returned(FALSE, Some(JsonErrorMessage)) }
    ELSE IF resp.status = 200
    THEN CASE resp.body \in { "object", "array" } -> { Returned(TRUE, None) }
           [] resp.body = "object_error_message" ->
                { Returned(FALSE, Some(GoogleErrorMessage)) }
           [] resp.body = "array_error_message" -> { Raised("AttributeError") }
           [] resp.body = "null" -> { Raised("TypeError") }
    ELSE { Returned(FALSE, Some(HttpCode(resp.status))) }

GeminiTestKey(cls, key, resp) ==
    IF resp.kind = "request_exception"
    THEN { Returned(FALSE, Some(ExceptionMessage(cls, key, resp))) }
    ELSE IF resp.status = 200 THEN { Returned(TRUE, None) }
    ELSE IF resp.status = 400 THEN { Returned(FALSE, Some(<< "Invalid API key format" >>)) }
    ELSE IF resp.status = 403
    THEN { Returned(FALSE, Some(<< "Forbidden - API not enabled or key invalid" >>)) }
    ELSE { Returned(FALSE, Some(HttpCode(resp.status))) }

\* AWSValidator.test_key: `except Exception` takes every failure
AWSTestKey(cls, key, resp) ==
    IF resp.kind = "sts_ok" THEN { Returned(TRUE, None) }
    ELSE IF \/ Contains(resp.msg, << "InvalidClientTokenId" >>)
            \/ Contains(resp.msg, << "SignatureDoesNotMatch" >>)
    THEN { Returned(FALSE, Some(<< "Invalid credentials" >>)) }
    ELSE IF Contains(resp.msg, << "NoCredentialsError" >>)
    THEN { Returned(FALSE, Some(<< "AWS credentials not configured properly" >>)) }
    ELSE { Returned(FALSE, Some(resp.msg)) }

\* validator.test_key(key), given the answer to its one request: the set of
\* values the call can have
test_key(cls, key, resp) ==
    CASE cls = "GoogleValidator" -> GoogleTestKey(cls, key, resp)
      [] cls = "GeminiValidator" -> GeminiTestKey(cls, key, resp)
      [] cls = "AWSValidator"    -> AWSTestKey(cls, key, resp)
      [] OTHER                   -> StatusTestKey(cls, key, resp)

----------------------------------------------------------------------------
(* Registries *)

Entry(id, cls) == [ id |-> id, cls |-> cls ]

\* get_validator's dict of src/main.py, in insertion order
CliValidators ==
    << Entry(openai, "OpenAIValidator"), Entry(github, "GitHubValidator"),
       Entry(google, "GoogleValidator"), Entry(aws, "AWSValidator"),
       Entry(huggingface, "HuggingFaceValidator") >>

\* the list validate_single_key prints for an unknown type
CliSupportedTypes == << openai, github, google, aws, huggingface >>

\* the module-level dict `validators` of src/app.py, in insertion order
validators ==
    << Entry(openai, "OpenAIValidator"), Entry(github, "GitHubValidator"),
       Entry(google, "GoogleValidator"), Entry(aws, "AWSValidator"),
       Entry(huggingface, "HuggingFaceValidator"), Entry(claude, "ClaudeValidator"),
       Entry(gemini, "GeminiValidator"), Entry(grok, "GrokValidator"),
       Entry(cohere, "CohereValidator"), Entry(perplexity, "PerplexityValidator"),
       Entry(replicate, "ReplicateValidator"), Entry(togetherai, "TogetherAIValidator") >>

\* the `type` members of the list app.py supported_apis returns, in its order
supported_apis ==
    << openai, claude, gemini, grok, cohere, perplexity, replicate, togetherai,
       github, google, aws, huggingface >>

RegistryKeys(reg) == [ n \in 1..Len(reg) |-> reg[n].id ]
InRegistry(reg, id) == \E n \in 1..Len(reg) : reg[n].id = id

\* dict.get(id): the validator, or None
NoValidator == "None"
Lookup(reg, id) ==
    IF InRegistry(reg, id)
    THEN reg[CHOOSE n \in 1..Len(reg) : reg[n].id = id].cls
    ELSE NoValidator

\* ", ".join(ids)
RECURSIVE Join(_)
Join(ids) ==
    IF Len(ids) = 0 THEN << >>
    ELSE IF Len(ids) = 1 THEN ids[1]
    ELSE ids[1] \o << ", " >> \o Join(Tail(ids))

get_validator(api_type) == Lookup(CliValidators, lower(api_type))

----------------------------------------------------------------------------
(* Result records *)

\* f"{error}"
StrOf(error) == IF error = None THEN << "None" >> ELSE error[1]

\* a key of exactly 10 characters is cut as well
key_previewFromTen(key) ==
    IF Len(key) >= 10 THEN Take(key, 10) \o << "***" >> ELSE << "***" >>

\* key[:10] + "***" if len(key) > 10 else "***"
key_preview(key) ==
    IF Len(key) > 10 THEN Take(key, 10) \o << "***" >> ELSE << "***" >>

Result(api_type, key, format_valid, status) ==
    [ api_type |-> api_type, key_preview |-> key_preview(key),
      format_valid |-> format_valid, is_active |-> FALSE,
      status |-> status, error |-> None ]

\* main.py: the dict of validate_single_key before the probe; a key whose
\* format is invalid keeps it, with the status of the else branch
CliResult(api_type, key, format_valid) ==
    Result(api_type, key, format_valid,
           IF format_valid THEN << "Invalid format" >>
           ELSE << "(cross mark) ", "Invalid format" >>)

\* main.py: the dict after `is_active, error = validator.test_key(key)`
CliProbed(rec, is_active, error) ==
    [ rec EXCEPT !.is_active = is_active, !.error = error,
                 !.status = IF is_active
                            THEN << "(check mark) ", "Valid and Active" >>
                            ELSE << "(cross mark) ", "Invalid/Inactive - " >> \o StrOf(error) ]

\* the dict starts with the status as its error
WebResultWithError(api_type, key, format_valid) ==
    [ Result(api_type, key, format_valid, << "Invalid format" >>)
        EXCEPT !.error = Some(<< "Invalid format" >>) ]

\* app.py: the dict of validate_key and of batch_validate before the probe
WebResult(api_type, key, format_valid) ==
    Result(api_type, key, format_valid, << "Invalid format" >>)

\* app.py: the dict after the probe
WebProbed(rec, is_active, error) ==
    [ rec EXCEPT !.is_active = is_active, !.error = error,
                 !.status = IF is_active
                            THEN << "Valid and Active", " (check mark)" >>
                            ELSE << "Invalid/Inactive - " >> \o StrOf(error) ]

\* what a call gives back to its caller
Ret(kind, http, error, results, flag) ==
    [ kind |-> kind, http |-> http, error |-> error, results |-> results, flag |-> flag ]
RetPending == Ret("pending", 0, None, << >>, FALSE)

\* the two lines validate_single_key prints for an unknown type
CliUnknownLines(api_type) ==
    << << "(cross mark) ", "Unknown API type: " >> \o api_type,
       << "   Supported types: " >> \o Join(CliSupportedTypes) >>

\* the 400 bodies of app.py
WebMissing(what) == Ret("json_error", 400, Some(<< "Missing api_type or ", what >>), << >>, FALSE)
WebUnknown ==
    Ret("json_error", 400,
        Some(<< "Unknown API type. Supported: " >> \o Join(RegistryKeys(validators))),
        << >>, FALSE)

----------------------------------------------------------------------------
(* Inputs *)

\* the longest list of keys a batch call is given
MaxKeys == 2

\* a key of each validator's format
SampleKey(cls) ==
    CASE cls = "OpenAIValidator"      -> << "s","k","-" >> \o Rep("a", 20)
      [] cls = "GitHubValidator"      -> << "g","h","p","_" >> \o Rep("B", 36)
      [] cls = "GoogleValidator"      -> << "A","I","z","a" >> \o Rep("c", 35)
      [] cls = "AWSValidator"         -> << "A","K","I","A" >> \o Rep("D", 16)
      [] cls = "HuggingFaceValidator" -> << "h","f","_" >> \o Rep("e", 34)
      [] cls = "ClaudeValidator"      -> << "s","k","-","a","n","t","-" >> \o Rep("f", 70)
      [] cls = "GeminiValidator"      -> Rep("G", 40)
      [] cls = "GrokValidator"        -> << "x","a","i","-" >> \o Rep("h", 20)
      [] cls = "CohereValidator"      -> Rep("i", 36)
      [] cls = "PerplexityValidator"  -> << "p","p","l","x","-" >> \o Rep("j", 40)
      [] cls = "ReplicateValidator"   -> Rep("k", 40)
      [] cls = "TogetherAIValidator"  -> Rep("7", 40)
      [] cls = "AnthropicValidator"   -> << "s","k","-","a","n","t","-" >> \o Rep("m", 60)

ShortKey == << "s","h","o","r","t" >>
TenKey   == << "0","1","2","3","4","5","6","7","8","9" >>

\* the keys a single call is given: blank ones, short ones, a key of every
\* format, and keys of a format with one character too few or one too many
Keys ==
    { << >>, << " " >>, ShortKey, TenKey }
    \cup { SampleKey(c) : c \in ValidatorClasses }
    \cup { SampleKey(c) \o << "\n" >> : c \in { "OpenAIValidator", "GoogleValidator", "GeminiValidator" } }
    \cup { SampleKey(c) \o << "x" >> : c \in { "GoogleValidator", "AWSValidator" } }
    \cup { << " " >> \o SampleKey("OpenAIValidator") \o << " " >>,
           << "s","k","-" >> \o Rep("a", 19) }

\* the provider identifiers a call is given: every identifier of the
\* specification's set, one in mixed case, one that names no provider, none
ApiTypes ==
    { openai, github, google, aws, huggingface, claude, gemini, grok, cohere,
      perplexity, replicate, togetherai, anthropic,
      << "O","p","e","n","A","I" >>, << "G","O","O","G","L","E" >>,
      << "n","o","t","r","e","a","l" >>, << >> }

\* the validator whose format the keys of a batch for `t` are taken from
SampleClass(t) ==
    IF lower(t) = anthropic THEN "AnthropicValidator"
    ELSE IF InRegistry(validators, lower(t)) THEN Lookup(validators, lower(t))
    ELSE "OpenAIValidator"

\* the keys of a batch for `t`: blank entries, a key of the wrong format, a key
\* of the right format, and a longer one padded as a line of a file is
BatchKeys(t) ==
    { << >>, << " " >>, ShortKey, SampleKey(SampleClass(t)),
      << " " >> \o SampleKey(SampleClass(t)) \o << "x", "\n" >> }

SeqsUpTo(S, n) == UNION { [ 1..m -> S ] : m \in 0..n }

----------------------------------------------------------------------------
(* State *)

VARIABLES
    pc,         \* "idle", "loop" (between two keys of a batch), "probing"
                \* (a test_key request is out), "done" (the call has ended)
    entry,      \* the function called
    arg_type,   \* its provider argument, as given
    arg_keys,   \* its key argument(s), as given
    api_type,   \* the local api_type of the call
    validator,  \* the validator class the call resolved
    i,          \* batch: index of the next key of the list
    cur,        \* the result dict under construction while the probe is out
    results,    \* batch: the local list `results`
    probes,     \* the keys test_key was invoked with, in order
    resp,       \* the answer to the latest probe of the key at hand
    stdout,     \* the lines printed
    ret         \* what the call gave back

vars == << pc, entry, arg_type, arg_keys, api_type, validator, i, cur,
           results, probes, resp, stdout, ret >>

NoRec == Result(<< >>, << >>, FALSE, << >>)

Init ==
    /\ pc = "idle"
    /\ entry = "none"
    /\ arg_type = << >>
    /\ arg_keys = << >>
    /\ api_type = << >>
    /\ validator = NoValidator
    /\ i = 1
    /\ cur = NoRec
    /\ results = << >>
    /\ probes = << >>
    /\ resp = NoResp
    /\ stdout = << >>
    /\ ret = RetPending

CliEntries == { "validate_single_key", "validate_batch_keys" }
WebEntries == { "validate_key", "batch_validate" }
BatchEntries == { "validate_batch_keys", "batch_validate" }

----------------------------------------------------------------------------
(* One key, up to the probe *)

Step(kind, v, rec) == [ kind |-> kind, validator |-> v, rec |-> rec ]

\* the format check does not gate the probe
CliCheckAlwaysProbes(key, t) ==
    LET v == get_validator(t)
    IN  IF v = NoValidator THEN Step("unknown", v, NoRec)
        ELSE Step("probe", v, CliResult(t, key, validate_format(v, key)))

\* main.py validate_single_key, lines 35-51: "unknown" (no validator: the
\* message is printed and None returned), "invalid" (the format check failed:
\* the dict is final) or "probe" (test_key is to be called)
CliCheck(key, t) ==
    LET v == get_validator(t)
    IN  IF v = NoValidator THEN Step("unknown", v, NoRec)
        ELSE LET format_valid == validate_format(v, key)
             IN  Step(IF format_valid THEN "probe" ELSE "invalid", v,
                      CliResult(t, key, format_valid))

\* app.py validate_key lines 65-79 and batch_validate lines 113-125, for an
\* api_type that is in `validators`
WebCheck(key, t) ==
    LET v == Lookup(validators, t)
        format_valid == validate_format(v, key)
    IN  Step(IF format_valid THEN "probe" ELSE "invalid", v,
             WebResult(t, key, format_valid))

\* the dict after the probe, in the wording of the entry point
Probed(e, rec, is_active, error) ==
    IF e \in CliEntries THEN CliProbed(rec, is_active, error)
    ELSE WebProbed(rec, is_active, error)

----------------------------------------------------------------------------
(* Calls *)

Call(e, t, ks) ==
    /\ pc = "idle"
    /\ entry' = e
    /\ arg_type' = t
    /\ arg_keys' = ks

\* main.py validate_single_key(key, api_type)
ValidateSingleKey(key, t) ==
    /\ Call("validate_single_key", t, << key >>)
    /\ api_type' = t
    /\ LET c == CliCheck(key, t)
       IN  /\ validator' = c.validator
           /\ cur' = c.rec
           /\ IF c.kind = "unknown"
              THEN /\ stdout' = CliUnknownLines(t)
                   /\ ret' = Ret("None", 0, None, << >>, FALSE)
                   /\ pc' = "done"
                   /\ probes' = probes
              ELSE IF c.kind = "invalid"
              THEN /\ stdout' = stdout
                   /\ ret' = Ret("dict", 0, None, << c.rec >>, FALSE)
                   /\ pc' = "done"
                   /\ probes' = probes
              ELSE /\ stdout' = stdout
                   /\ ret' = ret
                   /\ pc' = "probing"
                   /\ probes' = Append(probes, key)
    /\ UNCHANGED << i, results, resp >>

\* main.py validate_batch_keys(keys_data, api_type) with a list: lines 67-74
ValidateBatchKeys(ks, t) ==
    /\ Call("validate_batch_keys", t, ks)
    /\ api_type' = t
    /\ pc' = "loop"
    /\ UNCHANGED << validator, i, cur, results, probes, resp, stdout, ret >>

\* main.py validate_batch_keys, one turn of the loop of lines 76-80, up to
\* the probe of validate_single_key
BatchKeysStep ==
    /\ pc = "loop"
    /\ entry = "validate_batch_keys"
    /\ i <= Len(arg_keys)
    /\ LET key == strip(arg_keys[i])
           c == CliCheck(key, api_type)
       IN  IF key = << >>
           THEN /\ i' = i + 1
                /\ UNCHANGED << pc, validator, cur, results, probes, stdout >>
           ELSE /\ validator' = c.validator
                /\ cur' = c.rec
                /\ IF c.kind = "unknown"
                   THEN /\ stdout' = stdout \o CliUnknownLines(api_type)
                        /\ i' = i + 1
                        /\ UNCHANGED << pc, results, probes >>
                   ELSE IF c.kind = "invalid"
                   THEN /\ results' = Append(results, c.rec)
                        /\ i' = i + 1
                        /\ UNCHANGED << pc, probes, stdout >>
                   ELSE /\ pc' = "probing"
                        /\ probes' = Append(probes, key)
                        /\ UNCHANGED << i, results, stdout >>
    /\ resp' = NoResp
    /\ UNCHANGED << entry, arg_type, arg_keys, api_type, ret >>

\* main.py validate_batch_keys, line 82
BatchKeysReturn ==
    /\ pc = "loop"
    /\ entry = "validate_batch_keys"
    /\ i > Len(arg_keys)
    /\ ret' = Ret("list", 0, None, results, FALSE)
    /\ pc' = "done"
    /\ UNCHANGED << entry, arg_type, arg_keys, api_type, validator, i, cur,
                    results, probes, resp, stdout >>

\* app.py validate_key, the request body {api_type: t, key: key}
ValidateKey(key, t) ==
    /\ Call("validate_key", t, << key >>)
    /\ api_type' = lower(t)
    /\ LET k == strip(key)
           c == WebCheck(k, lower(t))
       IN  IF lower(t) = << >> \/ k = << >>
           THEN /\ ret' = WebMissing("key")
                /\ pc' = "done"
                /\ UNCHANGED << validator, cur, probes >>
           ELSE IF ~ InRegistry(validators, lower(t))
           THEN /\ ret' = WebUnknown
                /\ pc' = "done"
                /\ UNCHANGED << validator, cur, probes >>
           ELSE /\ validator' = c.validator
                /\ cur' = c.rec
                /\ IF c.kind = "invalid"
                   THEN /\ ret' = Ret("json_dict", 200, None, << c.rec >>, FALSE)
                        /\ pc' = "done"
                        /\ probes' = probes
                   ELSE /\ ret' = ret
                        /\ pc' = "probing"
                        /\ probes' = Append(probes, k)
    /\ UNCHANGED << i, results, resp, stdout >>

\* app.py batch_validate, the request body {api_type: t, keys: ks}: lines 97-109
BatchValidate(ks, t) ==
    /\ Call("batch_validate", t, ks)
    /\ api_type' = lower(t)
    /\ IF lower(t) = << >> \/ ks = << >>
       THEN ret' = WebMissing("keys") /\ pc' = "done"
       ELSE IF ~ InRegistry(validators, lower(t))
       THEN ret' = WebUnknown /\ pc' = "done"
       ELSE ret' = ret /\ pc' = "loop"
    /\ UNCHANGED << validator, i, cur, results, probes, resp, stdout >>

\* app.py batch_validate, one turn of the loop of lines 110-134, up to the probe
BatchValidateStep ==
    /\ pc = "loop"
    /\ entry = "batch_validate"
    /\ i <= Len(arg_keys)
    /\ LET key == strip(arg_keys[i])
           c == WebCheck(key, api_type)
       IN  IF key = << >>
           THEN /\ i' = i + 1
                /\ UNCHANGED << pc, validator, cur, results, probes >>
           ELSE /\ validator' = c.validator
                /\ cur' = c.rec
                /\ IF c.kind = "invalid"
                   THEN /\ results' = Append(results, c.rec)
                        /\ i' = i + 1
                        /\ UNCHANGED << pc, probes >>
                   ELSE /\ pc' = "probing"
                        /\ probes' = Append(probes, key)
                        /\ UNCHANGED << i, results >>
    /\ resp' = NoResp
    /\ UNCHANGED << entry, arg_type, arg_keys, api_type, stdout, ret >>

\* app.py batch_validate, line 136
BatchValidateReturn ==
    /\ pc = "loop"
    /\ entry = "batch_validate"
    /\ i > Len(arg_keys)
    /\ ret' = Ret("json_results", 200, None, results, FALSE)
    /\ pc' = "done"
    /\ UNCHANGED << entry, arg_type, arg_keys, api_type, validator, i, cur,
                    results, probes, resp, stdout >>

\* validator.validate_format(key), called on a validator directly
ValidateFormat(cls, key) ==
    /\ Call("validate_format", << >>, << key >>)
    /\ validator' = cls
    /\ ret' = Ret("bool", 0, None, << >>, validate_format(cls, key))
    /\ pc' = "done"
    /\ UNCHANGED << api_type, i, cur, results, probes, resp, stdout >>

\* validator.test_key(key), called on a validator directly: the request goes out
TestKey(cls, key) ==
    /\ Call("test_key", << >>, << key >>)
    /\ validator' = cls
    /\ probes' = Append(probes, key)
    /\ pc' = "probing"
    /\ UNCHANGED << api_type, i, cur, results, resp, stdout, ret >>

----------------------------------------------------------------------------
(* The probe answers *)

ProbeKey == probes[Len(probes)]

\* test_key returns its two-tuple and the entry point goes on: lines 52-62 of
\* main.py, 81-91 and 126-134 of app.py
ProbeReturn ==
    /\ pc = "probing"
    /\ \E r \in Responses(validator) : \E v \in test_key(validator, ProbeKey, r) :
        /\ ~ v.raised
        /\ resp' = r
        /\ LET rec == Probed(entry, cur, v.is_active, v.error)
           IN  IF entry = "test_key"
               THEN /\ ret' = Ret("tuple", 0, v.error, << >>, v.is_active)
                    /\ pc' = "done"
                    /\ UNCHANGED << i, cur, results >>
               ELSE IF entry \in BatchEntries
               THEN /\ results' = Append(results, rec)
                    /\ cur' = rec
                    /\ i' = i + 1
                    /\ pc' = "loop"
                    /\ ret' = ret
               ELSE /\ ret' = Ret(IF entry = "validate_key" THEN "json_dict" ELSE "dict",
                                  IF entry = "validate_key" THEN 200 ELSE 0,
                                  None, << rec >>, FALSE)
                    /\ cur' = rec
                    /\ pc' = "done"
                    /\ UNCHANGED << i, results >>
    /\ UNCHANGED << entry, arg_type, arg_keys, api_type, validator, probes, stdout >>

\* test_key raises: no entry point catches, the call ends with the exception
\* (in app.py the framework answers 500)
ProbeRaise ==
    /\ pc = "probing"
    /\ \E r \in Responses(validator) : \E v \in test_key(validator, ProbeKey, r) :
        /\ v.raised
        /\ resp' = r
        /\ ret' = Ret("exception", IF entry \in WebEntries THEN 500 ELSE 0,
                      v.error, << >>, FALSE)
    /\ pc' = "done"
    /\ UNCHANGED << entry, arg_type, arg_keys, api_type, validator, i, cur,
                    results, probes, stdout >>

\* app.py supported_apis: GET /api/supported-apis answers the fixed list
SupportedApis ==
    /\ Call("supported_apis", << >>, << >>)
    /\ ret' = Ret("json_apis", 200, Some(Join(supported_apis)), << >>, FALSE)
    /\ pc' = "done"
    /\ UNCHANGED << api_type, validator, i, cur, results, probes, resp, stdout >>

\* the call is over; the next one starts from a fresh frame
Finish ==
    /\ pc = "done"
    /\ pc' = "idle"
    /\ entry' = "none"
    /\ arg_type' = << >>
    /\ arg_keys' = << >>
    /\ api_type' = << >>
    /\ validator' = NoValidator
    /\ i' = 1
    /\ cur' = NoRec
    /\ results' = << >>
    /\ probes' = << >>
    /\ resp' = NoResp
    /\ stdout' = << >>
    /\ ret' = RetPending

\* an entry point is called, with inputs of the sets above
EnterValidateSingleKey ==
    pc = "idle" /\ \E t \in ApiTypes : \E key \in Keys : ValidateSingleKey(key, t)
EnterValidateBatchKeys ==
    pc = "idle" /\ \E t \in ApiTypes : \E ks \in SeqsUpTo(BatchKeys(t), MaxKeys) :
                     ValidateBatchKeys(ks, t)
EnterValidateKey ==
    pc = "idle" /\ \E t \in ApiTypes : \E key \in Keys : ValidateKey(key, t)
EnterBatchValidate ==
    pc = "idle" /\ \E t \in ApiTypes : \E ks \in SeqsUpTo(BatchKeys(t), MaxKeys) :
                     BatchValidate(ks, t)
EnterValidateFormat ==
    pc = "idle" /\ \E cls \in ValidatorClasses : \E key \in Keys : ValidateFormat(cls, key)
EnterTestKey ==
    pc = "idle" /\ \E cls \in ValidatorClasses : \E key \in Keys : TestKey(cls, key)

Next ==
    \/ EnterValidateSingleKey
    \/ EnterValidateBatchKeys
    \/ BatchKeysStep
    \/ BatchKeysReturn
    \/ EnterValidateKey
    \/ EnterBatchValidate
    \/ BatchValidateStep
    \/ BatchValidateReturn
    \/ EnterValidateFormat
    \/ EnterTestKey
    \/ SupportedApis
    \/ ProbeReturn
    \/ ProbeRaise
    \/ Finish

Spec == Init /\ [][Next]_vars

----------------------------------------------------------------------------
(* Vocabulary of the properties *)

AggregatorEntries == CliEntries \cup WebEntries

\* the result records the call has built so far or has returned
AllRecords ==
    { results[n] : n \in 1..Len(results) } \cup { ret.results[n] : n \in 1..Len(ret.results) }

\* the provider argument names a validator of the entry point's registry
Supported ==
    IF entry \in CliEntries THEN get_validator(arg_type) # NoValidator
    ELSE InRegistry(validators, lower(arg_type))

\* the identifiers of the entry point's registry
SupportedIds ==
    IF entry \in CliEntries THEN RegistryKeys(CliValidators) ELSE RegistryKeys(validators)

\* the non-blank entries of a list of keys, stripped, in order
NonBlank(ks) ==
    SelectSeq([ n \in 1..Len(ks) |-> strip(ks[n]) ], LAMBDA k : k # << >>)

\* the keys the call has to check, in order: the n-th record is about the n-th
CheckedKeys ==
    IF entry = "validate_single_key" THEN arg_keys ELSE NonBlank(arg_keys)

\* the records the call has built, in order
BuiltRecords == IF pc = "done" /\ entry \notin BatchEntries THEN ret.results ELSE results

\* the keys among CheckedKeys whose format the resolved validator accepts
ValidKeys ==
    LET v == IF entry \in CliEntries THEN get_validator(arg_type)
             ELSE Lookup(validators, lower(arg_type))
    IN  SelectSeq(CheckedKeys, LAMBDA k : validate_format(v, k))

IsPrefix(a, b) == Len(a) <= Len(b) /\ SubSeq(b, 1, Len(a)) = a

\* the answer is a success answer: HTTP 200, for AWS the identity call went through
AnswerOk == (resp.kind = "http" /\ resp.status = 200) \/ resp.kind = "sts_ok"

\* test_key was called directly and has ended
TestKeyEnded == entry = "test_key" /\ pc = "done"
ReturnedTuple(is_active, error) ==
    ret.kind = "tuple" /\ ret.flag = is_active /\ ret.error = error

----------------------------------------------------------------------------
(* C1 *)

\* C1: in every result record that any entry point builds or returns,
\* is_active = true implies format_valid = true.
C1_ActiveImpliesFormatValid ==
    \A r \in AllRecords : r.is_active => r.format_valid

\* a batch has returned a record of an active key
C1_Witness ==
    /\ pc = "done"
    /\ entry \in BatchEntries
    /\ \E n \in 1..Len(ret.results) : ret.results[n].is_active /\ ret.results[n].format_valid
    /\ \E n \in 1..Len(ret.results) : ~ ret.results[n].format_valid

----------------------------------------------------------------------------
(* C2 *)

\* the format-valid records among the first n the call has built
ProbedRecords == { n \in 1..Len(results) : results[n].format_valid }

\* C2: for any keys checked against a supported provider, test_key is invoked
\* exactly once for each non-blank key whose format is valid and never for
\* another, one probe after the other in input order (a probe starts only when
\* the record of the previous key is in), and the record of a format-invalid
\* key has is_active = false and error = null.
C2_ProbeOncePerValidKey ==
    (entry \in AggregatorEntries /\ Supported) =>
        /\ IsPrefix(probes, ValidKeys)
        /\ pc = "done" => probes = ValidKeys
        /\ (entry \in BatchEntries /\ pc = "probing") =>
               Len(probes) = Cardinality(ProbedRecords) + 1
        /\ \A r \in AllRecords : ~ r.format_valid => (~ r.is_active /\ r.error = None)

----------------------------------------------------------------------------
(* C3 *)

RECURSIVE Flatten(_)
Flatten(lines) == IF lines = << >> THEN << >> ELSE lines[1] \o Flatten(Tail(lines))

\* the text of the error the caller is shown: what the CLI printed, the
\* `error` member of the web answer
ErrorText == IF entry \in CliEntries THEN Flatten(stdout) ELSE StrOf(ret.error)

\* C3: a provider identifier that is not in the registry yields, for the
\* single-key and the batch entry point of the CLI and of the web layer and for
\* every key argument, an error that is distinguishable from a validation
\* outcome (not a result list) and lists the supported identifiers.
C3_UnknownProviderError ==
    (pc = "done" /\ entry \in AggregatorEntries /\ arg_type # << >> /\ ~ Supported) =>
        /\ ret.kind \in { "None", "json_error" }
        /\ \A n \in 1..Len(SupportedIds) : Contains(ErrorText, SupportedIds[n])

----------------------------------------------------------------------------
(* C4 *)

\* C4: test_key never raises: whatever the answer to the probe, the call
\* (direct, or inside an entry point) ends with a value, never an exception.
C4_TestKeyNeverRaises == ret.kind # "exception"

----------------------------------------------------------------------------
(* C5 *)

\* C5: no field of a result record (key_preview, status, error) contains the
\* complete key, for every key longer than 10 characters and every answer.
C5_KeyNeverSurfaced ==
    (entry \in AggregatorEntries /\ Supported) =>
        LET keys == CheckedKeys
        IN  \A n \in 1..Len(BuiltRecords) :
                LET r == BuiltRecords[n]
                IN  Len(keys[n]) > 10 =>
                        /\ ~ Contains(r.key_preview, keys[n])
                        /\ ~ Contains(r.status, keys[n])
                        /\ ~ Contains(StrOf(r.error), keys[n])

----------------------------------------------------------------------------
(* C6 *)

\* C6: for every validator that probes over HTTP (all but AWS), test_key maps
\* HTTP 401 to (false, "Unauthorized..."), every status other than 200 and 401
\* to (false, "HTTP <code>") except Gemini's 400 and 403, which have messages
\* of their own, and a network failure to (false, <exception message>).
C6_StatusMapping ==
    (TestKeyEnded /\ validator # "AWSValidator") =>
        /\ (resp.kind = "http" /\ resp.status = 401) =>
               /\ ret.kind = "tuple" /\ ~ ret.flag /\ ret.error # None
               /\ StartsWith(StrOf(ret.error), << "Unauthorized" >>)
        /\ (resp.kind = "http" /\ resp.status \notin { 200, 401 }) =>
               IF validator = "GeminiValidator" /\ resp.status \in { 400, 403 }
               THEN ret.kind = "tuple" /\ ~ ret.flag /\ ret.error # None
                    /\ ret.error # Some(HttpCode(resp.status))
               ELSE ReturnedTuple(FALSE, Some(HttpCode(resp.status)))
        /\ resp.kind = "request_exception" =>
               ReturnedTuple(FALSE, Some(ExceptionMessage(validator, ProbeKey, resp)))

----------------------------------------------------------------------------
(* C7 *)

----------------------------------------------------------------------------
(* C8 *)

\* C8: a batch for a supported provider returns exactly one result per
\* non-blank key, in input order, the n-th being the check of the n-th
\* non-blank key, and none for a blank entry.
C8_OneResultPerNonBlankKey ==
    (pc = "done" /\ entry \in BatchEntries /\ Supported) =>
        /\ ret.kind \in { "list", "json_results" }
        /\ Len(ret.results) = Len(NonBlank(arg_keys))
        /\ \A n \in 1..Len(ret.results) :
               /\ ret.results[n].key_preview = key_preview(NonBlank(arg_keys)[n])
               /\ ret.results[n].format_valid = validate_format(validator, NonBlank(arg_keys)[n])

----------------------------------------------------------------------------
(* C9 *)

\* C9: in every result record, error is non-null only when is_active = false
\* and test_key was invoked with that record's key; a record with
\* is_active = true or format_valid = false has error = null.
C9_ErrorOnlyAfterFailedProbe ==
    entry \in AggregatorEntries =>
        LET keys == CheckedKeys
        IN  \A n \in 1..Len(BuiltRecords) :
                LET r == BuiltRecords[n]
                IN  /\ r.error # None =>
                           (~ r.is_active /\ \E m \in 1..Len(probes) : probes[m] = keys[n])
                    /\ (r.is_active \/ ~ r.format_valid) => r.error = None

\* a batch has returned the record of a failed probe next to the record of a
\* key that was not probed
C9_Witness ==
    /\ pc = "done"
    /\ entry \in BatchEntries
    /\ \E n \in 1..Len(ret.results) :
           ret.results[n].error # None /\ ~ ret.results[n].is_active
    /\ \E n \in 1..Len(ret.results) :
           ~ ret.results[n].format_valid /\ ret.results[n].error = None

----------------------------------------------------------------------------
(* C10 *)

\* C10: validate_format(key) is true if and only if the whole key, with
\* nothing before or after, matches the validator's pattern: a match followed
\* by one more character, a trailing newline included, is rejected.
C10_AnchoredFullMatch ==
    (entry = "validate_format" /\ pc = "done") =>
        ret.flag = FullMatch(FORMAT_PATTERN(validator), arg_keys[1])

----------------------------------------------------------------------------
(* C11 *)

\* the validator class the entry point's registry holds for an identifier
Registered(id) ==
    IF entry \in CliEntries THEN Lookup(CliValidators, id) ELSE Lookup(validators, id)

\* C11: the provider identifier is case-insensitive and normalized: for every
\* supported provider and every case variant of its identifier, the call
\* resolves the validator registered under the lower-case identifier, and the
\* provider field of every record it builds is that lower-case identifier.
C11_ProviderNormalized ==
    (entry \in AggregatorEntries /\ Supported) =>
        /\ validator # NoValidator => validator = Registered(lower(arg_type))
        /\ \A r \in AllRecords : r.api_type = lower(arg_type)

----------------------------------------------------------------------------
(* C12 *)

\* the provider identifiers the specification enumerates
ProviderIds ==
    { openai, github, google, aws, huggingface, claude, gemini, grok, cohere,
      perplexity, replicate, togetherai, anthropic }

Range(f) == { f[n] : n \in 1..Len(f) }

\* the call told its caller that the provider is unknown
ReportedUnknown == stdout # << >> \/ ret = WebUnknown \/ ret.kind = "None"

\* C12: the registry resolves every identifier of the enumerated set of
\* providers to a validator, in the CLI and in the web layer, and the
\* identifiers each layer reports as supported are those its registry resolves.
C12_RegistryResolvesAllProviders ==
    /\ (pc = "done" /\ entry \in AggregatorEntries /\ lower(arg_type) \in ProviderIds) =>
           (Supported /\ ~ ReportedUnknown)
    /\ Range(CliSupportedTypes) = Range(RegistryKeys(CliValidators))
    /\ (pc = "done" /\ entry = "supported_apis") =>
           \A id \in ProviderIds :
               Contains(StrOf(ret.error), id) <=> InRegistry(validators, id)

----------------------------------------------------------------------------
(* C13 *)

\* the redacted preview of a key, as the specification words it
RedactedPreview(key) ==
    IF Len(key) <= 10 THEN << "***" >> ELSE SubSeq(key, 1, 10) \o << "***" >>

\* the keys of the call with their surrounding whitespace removed, in order
StrippedKeys ==
    IF entry = "validate_single_key"
    THEN [ n \in 1..Len(arg_keys) |-> strip(arg_keys[n]) ]
    ELSE NonBlank(arg_keys)

\* the preview of every record is the redacted preview of the stripped key, in
\* the CLI as in the web layer
C13_PreviewOfStrippedKey ==
    (entry \in AggregatorEntries /\ Supported) =>
        LET keys == StrippedKeys
        IN  \A n \in 1..Len(BuiltRecords) :
                BuiltRecords[n].key_preview = RedactedPreview(keys[n])

\* C13: the key preview of every result record is a function of the key as the
\* entry point checks it (stripped by validate_batch_keys, validate_key and
\* batch_validate, as passed by validate_single_key) and of nothing else: its
\* first 10 characters followed by "***" when it is longer than 10 characters,
\* exactly "***" otherwise.
C13_PreviewOfCheckedKey ==
    (entry \in AggregatorEntries /\ Supported) =>
        LET keys == CheckedKeys
        IN  \A n \in 1..Len(BuiltRecords) :
                BuiltRecords[n].key_preview = RedactedPreview(keys[n])

\* a batch has ended with a record for a short key and a record for a key that
\* was given with whitespace around it and is longer than 10 characters
C13_Witness ==
    /\ pc = "done" /\ entry \in BatchEntries /\ Supported
    /\ Len(arg_keys) = 2 /\ Len(BuiltRecords) = 2
    /\ Len(arg_keys[1]) <= 10 /\ BuiltRecords[1].key_preview = << "***" >>
    /\ arg_keys[2] # strip(arg_keys[2]) /\ Len(strip(arg_keys[2])) > 10
    /\ BuiltRecords[2].key_preview = SubSeq(strip(arg_keys[2]), 1, 10) \o << "***" >>

====
